---- MODULE Spec2Model ----
(***************************************************************************)
(* Relational schema of models.py: seven tables, their foreign keys with   *)
(* the declared on_delete policies, the unique columns and the             *)
(* unique_together pairs.  Rows carry the primary key, the foreign keys    *)
(* and the columns a uniqueness constraint is declared on.  Every          *)
(* operation is one save() or delete() of one model instance, together     *)
(* with everything the declared policies make it do to other tables.       *)
(***************************************************************************)
EXTENDS Integers, FiniteSets

\* ---------------------------------------------------------------- bounds
MaxRol == 2
MaxMiembro == 2
MaxProyecto == 2
MaxEscena == 2
MaxMaterial == 2
MaxPresupuesto == 1
MaxContrato == 2
MaxRows == 5

\* ---------------------------------------------------------------- values
NULL == 0

\* Values offered for the CharField columns declared unique, and for numero_escena.
Textos == {"A", "B"}
Numeros == {1, 2}

OK == "ok"
IntegrityError == "IntegrityError"

VARIABLES rol, miembro, proyecto, escena, material, presupuesto, contrato,
          nextId, last

tables == <<rol, miembro, proyecto, escena, material, presupuesto, contrato>>
vars == <<rol, miembro, proyecto, escena, material, presupuesto, contrato,
          nextId, last>>

Ids(t) == {r.id : r \in t}

\* Values offered for a foreign key to table t: the stored rows, NULL, and a
\* primary key that names no row (the next one of t, not assigned yet).
Refs(t, name) == Ids(t) \cup {NULL, nextId[name]}

\* What the caller of the last save() or delete() saw: save() returns or raises
\* IntegrityError; delete() returns the number of rows it deleted, the instance
\* included.  nulled is the number of rows whose foreign key it set to NULL.
Accepted == [status |-> OK, deleted |-> 0, nulled |-> 0]

Rejected == [status |-> IntegrityError, deleted |-> 0, nulled |-> 0]

Deleted(deleted, nulled) == [status |-> OK, deleted |-> deleted, nulled |-> nulled]

\* Rows stored, over all tables.
RowCount ==
    Cardinality(rol) + Cardinality(miembro) + Cardinality(proyecto)
        + Cardinality(escena) + Cardinality(material) + Cardinality(presupuesto)
        + Cardinality(contrato)

\* Rows of the tables with a SET_NULL foreign key that a step has rewritten.
Nulled == (miembro' \ miembro) \cup (proyecto' \ proyecto)

\* Rows inserted so far, over all tables.
Inserted ==
    nextId["rol"] + nextId["miembro"] + nextId["proyecto"] + nextId["escena"]
        + nextId["material"] + nextId["presupuesto"] + nextId["contrato"] - 7

\* The implicit AutoField: the next primary key of table t, never used before.
HasNextId(t, max) == nextId[t] <= max /\ Inserted < MaxRows

Advance(t) == [nextId EXCEPT ![t] = @ + 1]

Init ==
    /\ rol = {}
    /\ miembro = {}
    /\ proyecto = {}
    /\ escena = {}
    /\ material = {}
    /\ presupuesto = {}
    /\ contrato = {}
    /\ nextId = [t \in {"rol", "miembro", "proyecto", "escena", "material",
                        "presupuesto", "contrato"} |-> 1]
    /\ last = Accepted

\* ------------------------------------------------------------ constraints
\* unique=True on nombre_rol
Rol_valid(self, nombre) ==
    ~\E r \in rol : r.id # self /\ r.nombre_rol = nombre

\* nullable foreign key to Rol_Produccion
Miembro_rol_valid(r) == r = NULL \/ r \in Ids(rol)

\* unique=True on email
Miembro_email_valid(self, email) ==
    ~\E m \in miembro : m.id # self /\ m.email = email

\* unique=True on titulo
Proyecto_titulo_valid(self, titulo) ==
    ~\E p \in proyecto : p.id # self /\ p.titulo = titulo

\* nullable foreign key to Miembro_Equipo
Proyecto_director_valid(d) == d = NULL \/ d \in Ids(miembro)

\* required foreign key to Proyecto_Audiovisual
Escena_proyecto_valid(p) == p # NULL /\ p \in Ids(proyecto)

\* Variant: unique=True on numero_escena alone.
Escena_unique_together_NumeroOnly(self, p, n) ==
    ~\E e \in escena : e.id # self /\ e.numero_escena = n

\* unique_together = ('proyecto', 'numero_escena')
Escena_unique_together(self, p, n) ==
    ~\E e \in escena : e.id # self /\ e.proyecto = p /\ e.numero_escena = n

\* required foreign key to Escena
Material_escena_valid(e) == e # NULL /\ e \in Ids(escena)

\* Variant: unique=True left out.
Material_ruta_valid_None(self, ruta) == TRUE

\* unique=True on ruta_almacenamiento
Material_ruta_valid(self, ruta) ==
    ~\E g \in material : g.id # self /\ g.ruta_almacenamiento = ruta

\* required foreign key to Proyecto_Audiovisual
Presupuesto_proyecto_valid(p) == p # NULL /\ p \in Ids(proyecto)

\* required foreign keys to Proyecto_Audiovisual and Miembro_Equipo
Contrato_proyecto_valid(p) == p # NULL /\ p \in Ids(proyecto)

\* Variant: null=True on miembro.
Contrato_miembro_valid_Nullable(m) == m = NULL \/ m \in Ids(miembro)

Contrato_miembro_valid(m) == m # NULL /\ m \in Ids(miembro)

\* Variant: no unique_together declared.
Contrato_unique_together_None(self, p, m) == TRUE

\* unique_together = ('proyecto', 'miembro')
Contrato_unique_together(self, p, m) ==
    ~\E c \in contrato : c.id # self /\ c.proyecto = p /\ c.miembro = m

\* ------------------------------------------------------- on_delete policies
\* Variant: CASCADE in place of SET_NULL.
Miembro_on_delete_rol_Cascade(r) == {m \in miembro : m.rol_produccion # r}

\* Miembro_Equipo.rol_produccion: SET_NULL
Miembro_on_delete_rol(r) ==
    {IF m.rol_produccion = r THEN [m EXCEPT !.rol_produccion = NULL] ELSE m :
        m \in miembro}

\* Variant: CASCADE in place of SET_NULL.
Proyecto_on_delete_miembro_Cascade(m) == {p \in proyecto : p.director # m}

\* Proyecto_Audiovisual.director: SET_NULL
Proyecto_on_delete_miembro(m) ==
    {IF p.director = m THEN [p EXCEPT !.director = NULL] ELSE p : p \in proyecto}

\* Variant: the contracts of a deleted member are left in place.
Contrato_on_delete_miembro_DoNothing(m) == contrato

\* Contrato_Talento.miembro: CASCADE
Contrato_on_delete_miembro(m) == {c \in contrato : c.miembro # m}

\* Escena.proyecto: CASCADE
Escena_on_delete_proyecto(p) == {e \in escena : e.proyecto # p}

\* Variant: the material of a deleted scene is left in place.
Material_on_delete_escena_DoNothing(kept) == material

\* Material_Grabado.escena: CASCADE, given the scenes that survive
Material_on_delete_escena(kept) == {g \in material : g.escena \in Ids(kept)}

\* Variant: the delete is not restricted to the project.
Presupuesto_on_delete_proyecto_All(p) == {}

\* Presupuesto_Detalle.proyecto: CASCADE
Presupuesto_on_delete_proyecto(p) == {b \in presupuesto : b.proyecto # p}

\* Contrato_Talento.proyecto: CASCADE
Contrato_on_delete_proyecto(p) == {c \in contrato : c.proyecto # p}

\* ------------------------------------------------------------- Rol_Produccion
InsertRol(nombre) ==
    /\ HasNextId("rol", MaxRol)
    /\ IF Rol_valid(NULL, nombre)
       THEN /\ rol' = rol \cup {[id |-> nextId["rol"], nombre_rol |-> nombre]}
            /\ nextId' = Advance("rol")
            /\ last' = Accepted
       ELSE /\ UNCHANGED <<rol, nextId>>
            /\ last' = Rejected
    /\ UNCHANGED <<miembro, proyecto, escena, material, presupuesto, contrato>>

UpdateRol(id, nombre) ==
    /\ id \in Ids(rol)
    /\ IF Rol_valid(id, nombre)
       THEN /\ rol' = {IF r.id = id THEN [r EXCEPT !.nombre_rol = nombre] ELSE r :
                          r \in rol}
            /\ last' = Accepted
       ELSE /\ UNCHANGED rol
            /\ last' = Rejected
    /\ UNCHANGED <<miembro, proyecto, escena, material, presupuesto, contrato, nextId>>

DeleteRol(id) ==
    /\ id \in Ids(rol)
    /\ rol' = {r \in rol : r.id # id}
    /\ miembro' = Miembro_on_delete_rol(id)
    /\ UNCHANGED <<proyecto, escena, material, presupuesto, contrato, nextId>>
    /\ last' = Deleted(RowCount - RowCount', Cardinality(Nulled))

\* ------------------------------------------------------------- Miembro_Equipo
\* Variant: a conflicting row is replaced before the error is raised.
InsertMiembro_Replace(email, r) ==
    /\ HasNextId("miembro", MaxMiembro)
    /\ IF Miembro_email_valid(NULL, email) /\ Miembro_rol_valid(r)
       THEN /\ miembro' = miembro \cup
                   {[id |-> nextId["miembro"], email |-> email, rol_produccion |-> r]}
            /\ nextId' = Advance("miembro")
            /\ last' = Accepted
       ELSE /\ miembro' = {m \in miembro : m.email # email}
            /\ UNCHANGED nextId
            /\ last' = Rejected
    /\ UNCHANGED <<rol, proyecto, escena, material, presupuesto, contrato>>

InsertMiembro(email, r) ==
    /\ HasNextId("miembro", MaxMiembro)
    /\ IF Miembro_email_valid(NULL, email) /\ Miembro_rol_valid(r)
       THEN /\ miembro' = miembro \cup
                   {[id |-> nextId["miembro"], email |-> email, rol_produccion |-> r]}
            /\ nextId' = Advance("miembro")
            /\ last' = Accepted
       ELSE /\ UNCHANGED <<miembro, nextId>>
            /\ last' = Rejected
    /\ UNCHANGED <<rol, proyecto, escena, material, presupuesto, contrato>>

UpdateMiembro(id, email, r) ==
    /\ id \in Ids(miembro)
    /\ IF Miembro_email_valid(id, email) /\ Miembro_rol_valid(r)
       THEN /\ miembro' = {IF m.id = id
                           THEN [m EXCEPT !.email = email, !.rol_produccion = r]
                           ELSE m : m \in miembro}
            /\ last' = Accepted
       ELSE /\ UNCHANGED miembro
            /\ last' = Rejected
    /\ UNCHANGED <<rol, proyecto, escena, material, presupuesto, contrato, nextId>>

DeleteMiembro(id) ==
    /\ id \in Ids(miembro)
    /\ miembro' = {m \in miembro : m.id # id}
    /\ proyecto' = Proyecto_on_delete_miembro(id)
    /\ contrato' = Contrato_on_delete_miembro(id)
    /\ UNCHANGED <<rol, escena, material, presupuesto, nextId>>
    /\ last' = Deleted(RowCount - RowCount', Cardinality(Nulled))

\* ------------------------------------------------------- Proyecto_Audiovisual
InsertProyecto(titulo, d) ==
    /\ HasNextId("proyecto", MaxProyecto)
    /\ IF Proyecto_titulo_valid(NULL, titulo) /\ Proyecto_director_valid(d)
       THEN /\ proyecto' = proyecto \cup
                   {[id |-> nextId["proyecto"], titulo |-> titulo, director |-> d]}
            /\ nextId' = Advance("proyecto")
            /\ last' = Accepted
       ELSE /\ UNCHANGED <<proyecto, nextId>>
            /\ last' = Rejected
    /\ UNCHANGED <<rol, miembro, escena, material, presupuesto, contrato>>

UpdateProyecto(id, titulo, d) ==
    /\ id \in Ids(proyecto)
    /\ IF Proyecto_titulo_valid(id, titulo) /\ Proyecto_director_valid(d)
       THEN /\ proyecto' = {IF p.id = id
                            THEN [p EXCEPT !.titulo = titulo, !.director = d]
                            ELSE p : p \in proyecto}
            /\ last' = Accepted
       ELSE /\ UNCHANGED proyecto
            /\ last' = Rejected
    /\ UNCHANGED <<rol, miembro, escena, material, presupuesto, contrato, nextId>>

DeleteProyecto(id) ==
    /\ id \in Ids(proyecto)
    /\ proyecto' = {p \in proyecto : p.id # id}
    /\ escena' = Escena_on_delete_proyecto(id)
    /\ material' = Material_on_delete_escena(Escena_on_delete_proyecto(id))
    /\ presupuesto' = Presupuesto_on_delete_proyecto(id)
    /\ contrato' = Contrato_on_delete_proyecto(id)
    /\ UNCHANGED <<rol, miembro, nextId>>
    /\ last' = Deleted(RowCount - RowCount', Cardinality(Nulled))

\* --------------------------------------------------------------------- Escena
InsertEscena(p, n) ==
    /\ HasNextId("escena", MaxEscena)
    /\ IF Escena_proyecto_valid(p) /\ Escena_unique_together(NULL, p, n)
       THEN /\ escena' = escena \cup
                   {[id |-> nextId["escena"], proyecto |-> p, numero_escena |-> n]}
            /\ nextId' = Advance("escena")
            /\ last' = Accepted
       ELSE /\ UNCHANGED <<escena, nextId>>
            /\ last' = Rejected
    /\ UNCHANGED <<rol, miembro, proyecto, material, presupuesto, contrato>>

UpdateEscena(id, p, n) ==
    /\ id \in Ids(escena)
    /\ IF Escena_proyecto_valid(p) /\ Escena_unique_together(id, p, n)
       THEN /\ escena' = {IF e.id = id
                          THEN [e EXCEPT !.proyecto = p, !.numero_escena = n]
                          ELSE e : e \in escena}
            /\ last' = Accepted
       ELSE /\ UNCHANGED escena
            /\ last' = Rejected
    /\ UNCHANGED <<rol, miembro, proyecto, material, presupuesto, contrato, nextId>>

DeleteEscena(id) ==
    /\ id \in Ids(escena)
    /\ escena' = {e \in escena : e.id # id}
    /\ material' = Material_on_delete_escena({e \in escena : e.id # id})
    /\ UNCHANGED <<rol, miembro, proyecto, presupuesto, contrato, nextId>>
    /\ last' = Deleted(RowCount - RowCount', Cardinality(Nulled))

\* ----------------------------------------------------------- Material_Grabado
InsertMaterial(e, ruta) ==
    /\ HasNextId("material", MaxMaterial)
    /\ IF Material_escena_valid(e) /\ Material_ruta_valid(NULL, ruta)
       THEN /\ material' = material \cup
                   {[id |-> nextId["material"], escena |-> e,
                     ruta_almacenamiento |-> ruta]}
            /\ nextId' = Advance("material")
            /\ last' = Accepted
       ELSE /\ UNCHANGED <<material, nextId>>
            /\ last' = Rejected
    /\ UNCHANGED <<rol, miembro, proyecto, escena, presupuesto, contrato>>

UpdateMaterial(id, e, ruta) ==
    /\ id \in Ids(material)
    /\ IF Material_escena_valid(e) /\ Material_ruta_valid(id, ruta)
       THEN /\ material' = {IF g.id = id
                            THEN [g EXCEPT !.escena = e, !.ruta_almacenamiento = ruta]
                            ELSE g : g \in material}
            /\ last' = Accepted
       ELSE /\ UNCHANGED material
            /\ last' = Rejected
    /\ UNCHANGED <<rol, miembro, proyecto, escena, presupuesto, contrato, nextId>>

DeleteMaterial(id) ==
    /\ id \in Ids(material)
    /\ material' = {g \in material : g.id # id}
    /\ UNCHANGED <<rol, miembro, proyecto, escena, presupuesto, contrato, nextId>>
    /\ last' = Deleted(RowCount - RowCount', Cardinality(Nulled))

\* -------------------------------------------------------- Presupuesto_Detalle
InsertPresupuesto(p) ==
    /\ HasNextId("presupuesto", MaxPresupuesto)
    /\ IF Presupuesto_proyecto_valid(p)
       THEN /\ presupuesto' = presupuesto \cup
                   {[id |-> nextId["presupuesto"], proyecto |-> p]}
            /\ nextId' = Advance("presupuesto")
            /\ last' = Accepted
       ELSE /\ UNCHANGED <<presupuesto, nextId>>
            /\ last' = Rejected
    /\ UNCHANGED <<rol, miembro, proyecto, escena, material, contrato>>

UpdatePresupuesto(id, p) ==
    /\ id \in Ids(presupuesto)
    /\ IF Presupuesto_proyecto_valid(p)
       THEN /\ presupuesto' = {IF b.id = id THEN [b EXCEPT !.proyecto = p] ELSE b :
                                  b \in presupuesto}
            /\ last' = Accepted
       ELSE /\ UNCHANGED presupuesto
            /\ last' = Rejected
    /\ UNCHANGED <<rol, miembro, proyecto, escena, material, contrato, nextId>>

DeletePresupuesto(id) ==
    /\ id \in Ids(presupuesto)
    /\ presupuesto' = {b \in presupuesto : b.id # id}
    /\ UNCHANGED <<rol, miembro, proyecto, escena, material, contrato, nextId>>
    /\ last' = Deleted(RowCount - RowCount', Cardinality(Nulled))

\* ----------------------------------------------------------- Contrato_Talento
InsertContrato(p, m) ==
    /\ HasNextId("contrato", MaxContrato)
    /\ IF /\ Contrato_proyecto_valid(p)
          /\ Contrato_miembro_valid(m)
          /\ Contrato_unique_together(NULL, p, m)
       THEN /\ contrato' = contrato \cup
                   {[id |-> nextId["contrato"], proyecto |-> p, miembro |-> m]}
            /\ nextId' = Advance("contrato")
            /\ last' = Accepted
       ELSE /\ UNCHANGED <<contrato, nextId>>
            /\ last' = Rejected
    /\ UNCHANGED <<rol, miembro, proyecto, escena, material, presupuesto>>

UpdateContrato(id, p, m) ==
    /\ id \in Ids(contrato)
    /\ IF /\ Contrato_proyecto_valid(p)
          /\ Contrato_miembro_valid(m)
          /\ Contrato_unique_together(id, p, m)
       THEN /\ contrato' = {IF c.id = id
                            THEN [c EXCEPT !.proyecto = p, !.miembro = m]
                            ELSE c : c \in contrato}
            /\ last' = Accepted
       ELSE /\ UNCHANGED contrato
            /\ last' = Rejected
    /\ UNCHANGED <<rol, miembro, proyecto, escena, material, presupuesto, nextId>>

DeleteContrato(id) ==
    /\ id \in Ids(contrato)
    /\ contrato' = {c \in contrato : c.id # id}
    /\ UNCHANGED <<rol, miembro, proyecto, escena, material, presupuesto, nextId>>
    /\ last' = Deleted(RowCount - RowCount', Cardinality(Nulled))

\* ---------------------------------------------------------------------- Next
\* save() of an existing instance rewrites the row with one attribute changed
\* or none.
Next ==
    \/ \E t \in Textos : InsertRol(t)
    \/ \E r \in rol, t \in Textos : UpdateRol(r.id, t)
    \/ \E r \in rol : DeleteRol(r.id)
    \/ \E t \in Textos, r \in Refs(rol, "rol") : InsertMiembro(t, r)
    \/ \E m \in miembro, t \in Textos : UpdateMiembro(m.id, t, m.rol_produccion)
    \/ \E m \in miembro, r \in Refs(rol, "rol") : UpdateMiembro(m.id, m.email, r)
    \/ \E m \in miembro : DeleteMiembro(m.id)
    \/ \E t \in Textos, d \in Refs(miembro, "miembro") : InsertProyecto(t, d)
    \/ \E p \in proyecto, t \in Textos : UpdateProyecto(p.id, t, p.director)
    \/ \E p \in proyecto, d \in Refs(miembro, "miembro") :
          UpdateProyecto(p.id, p.titulo, d)
    \/ \E p \in proyecto : DeleteProyecto(p.id)
    \/ \E p \in Refs(proyecto, "proyecto"), n \in Numeros : InsertEscena(p, n)
    \/ \E e \in escena, p \in Refs(proyecto, "proyecto") :
          UpdateEscena(e.id, p, e.numero_escena)
    \/ \E e \in escena, n \in Numeros : UpdateEscena(e.id, e.proyecto, n)
    \/ \E e \in escena : DeleteEscena(e.id)
    \/ \E e \in Refs(escena, "escena"), t \in Textos : InsertMaterial(e, t)
    \/ \E g \in material, e \in Refs(escena, "escena") :
          UpdateMaterial(g.id, e, g.ruta_almacenamiento)
    \/ \E g \in material, t \in Textos : UpdateMaterial(g.id, g.escena, t)
    \/ \E g \in material : DeleteMaterial(g.id)
    \/ \E p \in Refs(proyecto, "proyecto") : InsertPresupuesto(p)
    \/ \E b \in presupuesto, p \in Refs(proyecto, "proyecto") :
          UpdatePresupuesto(b.id, p)
    \/ \E b \in presupuesto : DeletePresupuesto(b.id)
    \/ \E p \in Refs(proyecto, "proyecto"), m \in Refs(miembro, "miembro") :
          InsertContrato(p, m)
    \/ \E c \in contrato, p \in Refs(proyecto, "proyecto") :
          UpdateContrato(c.id, p, c.miembro)
    \/ \E c \in contrato, m \in Refs(miembro, "miembro") :
          UpdateContrato(c.id, c.proyecto, m)
    \/ \E c \in contrato : DeleteContrato(c.id)

Spec == Init /\ [][Next]_vars

\* ==================================================================== claims
\* Primary keys of the rows of a table that a step removes.
Gone(t, tNext) == Ids(t) \ Ids(tNext)

\* C1: deleting a project removes its scenes, the recorded material of those
\* scenes, its budget items and its contracts; afterwards no row of those four
\* tables refers to the project, directly or through a scene, and the delete
\* is not refused because of them.
C1_DeleteProyectoCascades ==
    [][proyecto' = proyecto \/ \A p \in Gone(proyecto, proyecto') :
          /\ last'.status = OK
          /\ \A e \in escena' : e.proyecto # p
          /\ \A g \in material' :
                /\ \A e \in escena : e.proyecto = p => g.escena # e.id
                /\ \E e \in escena' : e.id = g.escena /\ e.proyecto # p
          /\ \A b \in presupuesto' : b.proyecto # p
          /\ \A c \in contrato' : c.proyecto # p]_vars

\* A delete removed three rows where one scene, one recorded material and no
\* budget item or contract had ever been stored: a project went with its scene
\* and the material of that scene.
C1_Witness ==
    /\ last.status = OK
    /\ last.deleted = 3
    /\ nextId["escena"] = 2
    /\ nextId["material"] = 2
    /\ nextId["presupuesto"] = 1
    /\ nextId["contrato"] = 1
    /\ escena = {}
    /\ material = {}

\* C2: deleting a role that team members refer to succeeds; each of those
\* members is still there with rol_produccion NULL and its other columns as
\* they were, and no member is deleted.
C2_DeleteRolSetsNull ==
    [][rol' = rol \/ \A r \in Gone(rol, rol') :
          /\ last'.status = OK
          /\ Ids(miembro') = Ids(miembro)
          /\ \A m \in miembro :
                m.rol_produccion = r =>
                    [id |-> m.id, email |-> m.email, rol_produccion |-> NULL]
                        \in miembro']_vars

\* A delete set a foreign key to NULL where no project had ever been stored:
\* a role went and the member that referred to it is still stored.
C2_Witness ==
    /\ last.status = OK
    /\ last.deleted = 1
    /\ last.nulled >= 1
    /\ nextId["proyecto"] = 1
    /\ \E m \in miembro : m.rol_produccion = NULL

\* C3: deleting a team member who directs projects succeeds; each of those
\* projects is still there with director NULL, and neither those projects nor
\* any of their scenes, recorded material or budget items is deleted.
C3_DeleteDirectorSetsNull ==
    [][miembro' = miembro \/ \A m \in Gone(miembro, miembro') :
          /\ last'.status = OK
          /\ \A p \in proyecto :
                p.director = m =>
                    /\ [id |-> p.id, titulo |-> p.titulo, director |-> NULL]
                           \in proyecto'
                    /\ \A e \in escena :
                          e.proyecto = p.id =>
                              /\ e \in escena'
                              /\ \A g \in material :
                                    g.escena = e.id => g \in material'
                    /\ \A b \in presupuesto :
                          b.proyecto = p.id => b \in presupuesto']_vars

\* A delete set a foreign key to NULL where no role had ever been stored: the
\* director of a project went; the project, a scene of it and material of that
\* scene are still stored.
C3_Witness ==
    /\ last.status = OK
    /\ last.nulled >= 1
    /\ nextId["rol"] = 1
    /\ \E p \in proyecto :
          /\ p.director = NULL
          /\ \E e \in escena :
                /\ e.proyecto = p.id
                /\ \E g \in material : g.escena = e.id

\* C4: no two scenes share (proyecto, numero_escena), so an insert that would
\* store a pair twice is refused; an insert of a scene whose project is stored
\* and whose pair is not is never refused, whatever scenes other projects have.
C4_EscenaUniqueTogether ==
    /\ [](\A e1, e2 \in escena :
            (e1.proyecto = e2.proyecto /\ e1.numero_escena = e2.numero_escena)
                => e1.id = e2.id)
    /\ [][last'.status = IntegrityError =>
             \A p \in Ids(proyecto), n \in Numeros :
                 (\E e \in escena : e.proyecto = p /\ e.numero_escena = n)
                     \/ ~InsertEscena(p, n)]_vars

\* Scenes of two projects with the same number are stored.
C4_Witness ==
    /\ last.status = OK
    /\ \E e1, e2 \in escena :
          e1.proyecto # e2.proyecto /\ e1.numero_escena = e2.numero_escena

\* C5: no two contracts share (proyecto, miembro), so an insert that would
\* store a pair twice is refused; an insert of a contract whose project and
\* member are stored and whose pair is not is never refused.
C5_ContratoUniqueTogether ==
    /\ [](\A c1, c2 \in contrato :
            (c1.proyecto = c2.proyecto /\ c1.miembro = c2.miembro)
                => c1.id = c2.id)
    /\ [][last'.status = IntegrityError =>
             \A p \in Ids(proyecto), m \in Ids(miembro) :
                 (\E c \in contrato : c.proyecto = p /\ c.miembro = m)
                     \/ ~InsertContrato(p, m)]_vars

\* One member has contracts under two projects.
C5_Witness ==
    /\ last.status = OK
    /\ \E c1, c2 \in contrato :
          c1.proyecto # c2.proyecto /\ c1.miembro = c2.miembro

\* C6: the values of nombre_rol, email, titulo and ruta_almacenamiento are
\* pairwise distinct within their tables, the storage path over all scenes and
\* projects: no insert or update ever stores a value that another row has.
C6_UniqueColumns ==
    /\ \A r1, r2 \in rol : r1.nombre_rol = r2.nombre_rol => r1.id = r2.id
    /\ \A m1, m2 \in miembro : m1.email = m2.email => m1.id = m2.id
    /\ \A p1, p2 \in proyecto : p1.titulo = p2.titulo => p1.id = p2.id
    /\ \A g1, g2 \in material :
          g1.ruta_almacenamiento = g2.ruta_almacenamiento => g1.id = g2.id

\* Recorded material of two scenes is stored, and an operation has just been
\* refused.
C6_Witness ==
    /\ last.status = IntegrityError
    /\ \E g1, g2 \in material : g1.escena # g2.escena

\* C7: deleting a team member removes the contracts of that member and none of
\* the projects those contracts belonged to; afterwards no contract refers to
\* the member.
C7_DeleteMiembroCascades ==
    [][miembro' = miembro \/ \A m \in Gone(miembro, miembro') :
          /\ \A c \in contrato' : c.miembro # m
          /\ \A c \in contrato : c.miembro = m => c.proyecto \in Ids(proyecto')
          /\ Ids(proyecto') = Ids(proyecto)]_vars

\* A delete removed two rows where no scene or budget item had ever been stored
\* and every project inserted is still stored: a member went with a contract.
C7_Witness ==
    /\ last.status = OK
    /\ last.deleted = 2
    /\ nextId["escena"] = 1
    /\ nextId["presupuesto"] = 1
    /\ Cardinality(proyecto) = nextId["proyecto"] - 1
    /\ Cardinality(miembro) < nextId["miembro"] - 1

\* C8: every required foreign key is non-null and names a stored row, every
\* nullable one is NULL or names a stored row: no insert or update ever stores a
\* row whose parent is not stored or whose required parent is NULL.
C8_ReferentialIntegrity ==
    /\ \A e \in escena : e.proyecto # NULL /\ e.proyecto \in Ids(proyecto)
    /\ \A g \in material : g.escena # NULL /\ g.escena \in Ids(escena)
    /\ \A b \in presupuesto : b.proyecto # NULL /\ b.proyecto \in Ids(proyecto)
    /\ \A c \in contrato :
          /\ c.proyecto # NULL /\ c.proyecto \in Ids(proyecto)
          /\ c.miembro # NULL /\ c.miembro \in Ids(miembro)
    /\ \A m \in miembro : m.rol_produccion = NULL \/ m.rol_produccion \in Ids(rol)
    /\ \A p \in proyecto : p.director = NULL \/ p.director \in Ids(miembro)

\* An operation was refused where no row had ever been stored: an insert whose
\* parent is NULL or names no row.
C8_Witness ==
    /\ last.status = IntegrityError
    /\ \A t \in DOMAIN nextId : nextId[t] = 1

\* C9: a delete removes the row and the rows that reach it through CASCADE
\* foreign keys, sets to NULL the SET_NULL foreign keys that named it, and
\* leaves every other row as it was.
C9_DeleteFrame ==
    [][tables' # tables =>
       /\ \A p \in Gone(proyecto, proyecto') :
             /\ proyecto' = {q \in proyecto : q.id # p}
             /\ escena' = {e \in escena : e.proyecto # p}
             /\ material' =
                    {g \in material :
                        \A e \in escena : e.id = g.escena => e.proyecto # p}
             /\ presupuesto' = {b \in presupuesto : b.proyecto # p}
             /\ contrato' = {c \in contrato : c.proyecto # p}
             /\ UNCHANGED <<rol, miembro>>
       /\ \A e \in Gone(escena, escena') :
             Gone(proyecto, proyecto') = {} =>
                 /\ escena' = {f \in escena : f.id # e}
                 /\ material' = {g \in material : g.escena # e}
                 /\ UNCHANGED <<rol, miembro, proyecto, presupuesto, contrato>>
       /\ \A r \in Gone(rol, rol') :
             /\ rol' = {q \in rol : q.id # r}
             /\ miembro' =
                    {[id |-> m.id, email |-> m.email,
                      rol_produccion |->
                          IF m.rol_produccion = r THEN NULL ELSE m.rol_produccion] :
                        m \in miembro}
             /\ UNCHANGED <<proyecto, escena, material, presupuesto, contrato>>
       /\ \A m \in Gone(miembro, miembro') :
             /\ miembro' = {q \in miembro : q.id # m}
             /\ proyecto' =
                    {[id |-> p.id, titulo |-> p.titulo,
                      director |-> IF p.director = m THEN NULL ELSE p.director] :
                        p \in proyecto}
             /\ contrato' = {c \in contrato : c.miembro # m}
             /\ UNCHANGED <<rol, escena, material, presupuesto>>
       /\ \A g \in Gone(material, material') :
             Gone(escena, escena') = {} =>
                 /\ material' = {q \in material : q.id # g}
                 /\ UNCHANGED <<rol, miembro, proyecto, escena, presupuesto, contrato>>
       /\ \A b \in Gone(presupuesto, presupuesto') :
             Gone(proyecto, proyecto') = {} =>
                 /\ presupuesto' = {q \in presupuesto : q.id # b}
                 /\ UNCHANGED <<rol, miembro, proyecto, escena, material, contrato>>
       /\ \A c \in Gone(contrato, contrato') :
             (Gone(proyecto, proyecto') = {} /\ Gone(miembro, miembro') = {}) =>
                 /\ contrato' = {q \in contrato : q.id # c}
                 /\ UNCHANGED <<rol, miembro, proyecto, escena, material, presupuesto>>
      ]_vars

\* A delete removed two rows where no member, recorded material, budget item or
\* contract had ever been stored: a project went with a scene of it, and a scene
\* of another project is still stored.
C9_Witness ==
    /\ last.status = OK
    /\ last.deleted = 2
    /\ nextId["miembro"] = 1
    /\ nextId["material"] = 1
    /\ nextId["presupuesto"] = 1
    /\ nextId["contrato"] = 1
    /\ \E e \in escena : e.proyecto \in Ids(proyecto)

\* C10: an insert or update refused for a constraint violation reports the
\* error and leaves all seven tables as they were.
C10_RejectedLeavesTables ==
    [][last'.status = IntegrityError => UNCHANGED tables]_vars

\* An operation was refused while a member, a project and a contract were
\* stored.
C10_Witness ==
    /\ last.status = IntegrityError
    /\ miembro # {}
    /\ proyecto # {}
    /\ contrato # {}

====
